---- MODULE Spec2Model ----
(***************************************************************************)
(* Combo event resources (XAieComboEvent, fal/src/rsc/xaiefal-events.hpp)  *)
(* sharing the per-device combo slot bitmaps and the combo registers of    *)
(* their tiles.                                                             *)
(***************************************************************************)
EXTENDS Integers, Sequences, FiniteSets, TLC

\* ---------------------------------------------------------------- bounds
NumRsc == 2          \* combo event objects alive on the device
MaxCol == 0          \* highest column of a tile used by an object
MaxRow == 1          \* highest row of a tile used by an object
MaxOpLen == 4        \* longest vOp vector a caller passes to setEvents
MaxTimeOut == 3      \* largest TimeOutUs a caller passes to XAie_SimIO_MaskPoll
MaxRegVal == 3       \* largest register value, Mask and Value of a mask poll

\* ------------------------------------------------------------- constants
XAIE_OK == "XAIE_OK"
XAIE_ERR == "XAIE_ERR"
XAIE_INVALID_ARGS == "XAIE_INVALID_ARGS"

XAIE_MEM_MOD == "XAIE_MEM_MOD"
XAIE_CORE_MOD == "XAIE_CORE_MOD"
XAIE_PL_MOD == "XAIE_PL_MOD"
Mods == {XAIE_MEM_MOD, XAIE_CORE_MOD, XAIE_PL_MOD}

XAIE_EVENT_COMBO0 == 0
XAIE_EVENT_COMBO1 == 1
XAIE_EVENT_COMBO2 == 2
ComboIds == {XAIE_EVENT_COMBO0, XAIE_EVENT_COMBO1, XAIE_EVENT_COMBO2}

Rids == 1..NumRsc
Locs == [Col : 0..MaxCol, Row : 0..MaxRow]
Ops == {0, 1}

\* Largest number of input events the constructor accepts.
MaxENum == 4

\* The idle encoding of a combo register: what XAie_EventComboReset leaves.
Idle == [Op |-> 0, E1 |-> 0, E2 |-> 0]

\* An event the device topology query rejects.
InvalidEvent == 2

\* Logical events: 0 is the value a new vEvents element holds.
Events == {0, 1, InvalidEvent}

\* Sequences over S of length lo..hi.
SeqsOf(S, lo, hi) == UNION {[1..k -> S] : k \in lo..hi}

\* Values an XAie_UserRsc holds when it is read without having been written.
IndetRsc == [Loc : Locs, Mod : Mods, RscId : 0..3]

\* The same, as far as XAieAllocRsc looks at it (Loc.Row and Mod only).
UninitRsc == {R \in IndetRsc : R.RscId = 0 /\ R.Loc.Col = 0}

VARIABLES
    rsc,     \* rsc[r]: the object r (Loc, Mod, vEvents, vOps, vRscs, State, Rsc)
    pool,    \* pool[M]: bits set in XAieComboCoreBits / MemBits / ShimBits
    regs,    \* regs[<<L, M>>][c]: combo register c of module M of tile L
    last,    \* the latest call: operation, object, status, outputs
    poll     \* the XAie_SimIO_MaskPoll call in progress or returned

vars == <<rsc, pool, regs, last, poll>>

\* ------------------------------------------------- external collaborators
\* XAie_EventLogicalToPhysicalConv succeeds for this event on this tile/module.
Translatable(L, M, e) == e # InvalidEvent

Min(S) == CHOOSE x \in S : \A y \in S : x <= y

\* XAieRsc::alloc_rsc_bit: first clear bit of start..start+bits2check-1 is set
\* and returned; -1 when none is clear.
alloc_rsc_bit(bits, start, bits2check) ==
    LET free == {b \in start..(start + bits2check - 1) : b \notin bits}
    IN  IF free = {} THEN [bit |-> -1, bits |-> bits]
        ELSE [bit |-> Min(free), bits |-> bits \cup {Min(free)}]

\* XAieRsc::clear_rsc_bit
clear_rsc_bit(bits, pos) == bits \ {pos}

\* ------------------------------------------------------------ constructor
\* Rsc is the object's aggregate resource; of it the model keeps RscId (its
\* Mod is written at line 176 and read nowhere).
NewState == [Initialized |-> 1, Configured |-> 0, Reserved |-> 0,
             Running |-> 0, Released |-> 0]

XAieComboEvent(L, M, ENum) ==
    [Loc |-> L, Mod |-> M,
     vEvents |-> [i \in 1..ENum |-> 0],
     vOps |-> <<>>,
     vRscs |-> <<>>,
     State |-> NewState,
     Rsc |-> [RscId |-> 0]]

\* ------------------------------------------------------------- setEvents
RECURSIVE TranslateLoopFirst(_, _, _)
\* TranslateLoop storing vE[0] at every position.
TranslateLoopFirst(o, vE, i) ==
    IF i > Len(vE) THEN [rc |-> XAIE_OK, obj |-> o, failK |-> 0]
    ELSE IF ~Translatable(o.Loc, o.Mod, vE[i])
         THEN [rc |-> XAIE_INVALID_ARGS, obj |-> o, failK |-> i]
         ELSE TranslateLoopFirst([o EXCEPT !.vEvents[i] = vE[1]], vE, i + 1)

RECURSIVE TranslateLoop(_, _, _)
\* lines 64-77; i is the 1-based position of the event being translated
TranslateLoop(o, vE, i) ==
    IF i > Len(vE) THEN [rc |-> XAIE_OK, obj |-> o, failK |-> 0]
    ELSE IF ~Translatable(o.Loc, o.Mod, vE[i])
         THEN [rc |-> XAIE_INVALID_ARGS, obj |-> o, failK |-> i]
         ELSE TranslateLoop([o EXCEPT !.vEvents[i] = vE[i]], vE, i + 1)

\* setEvents committing vOps and Configured whatever the translation returned.
setEventsUnchecked(o, vE, vOp) ==
    IF o.State.Initialized = 0
    THEN [rc |-> XAIE_ERR, obj |-> o, failK |-> 0]
    ELSE IF \/ Len(vE) # Len(o.vEvents)
            \/ Len(vOp) > 3
            \/ (Len(vE) <= 2 /\ Len(vOp) > 1)
            \/ (Len(vE) > 2 /\ Len(o.vOps) < 2)
    THEN [rc |-> XAIE_INVALID_ARGS, obj |-> o, failK |-> 0]
    ELSE LET t == TranslateLoop(o, vE, 1)
         IN  [rc |-> t.rc,
              obj |-> [t.obj EXCEPT !.vOps = vOp, !.State.Configured = 1],
              failK |-> t.failK]

setEvents(o, vE, vOp) ==
    IF o.State.Initialized = 0
    THEN [rc |-> XAIE_ERR, obj |-> o, failK |-> 0]
    ELSE IF \/ Len(vE) # Len(o.vEvents)
            \/ Len(vOp) > 3
            \/ (Len(vE) <= 2 /\ Len(vOp) > 1)
            \/ (Len(vE) > 2 /\ Len(o.vOps) < 2)
    THEN [rc |-> XAIE_INVALID_ARGS, obj |-> o, failK |-> 0]
    ELSE LET t == TranslateLoop(o, vE, 1)
         IN  IF t.rc = XAIE_OK
             THEN [rc |-> XAIE_OK,
                   obj |-> [t.obj EXCEPT !.vOps = vOp, !.State.Configured = 1],
                   failK |-> 0]
             ELSE t

\* --------------------------------------------------------- getInputEvents
getInputEvents(o) ==
    IF o.State.Configured = 1
    THEN [rc |-> XAIE_OK, vE |-> o.vEvents, vOp |-> o.vOps]
    ELSE [rc |-> XAIE_ERR, vE |-> <<>>, vOp |-> <<>>]

\* -------------------------------------------------------------- getEvents
\* _XAie_GetTileTypefromLoc: row 0 holds the shim tiles, the rows above it the
\* AIE tiles.
XAIEGBL_TILE_TYPE_AIETILE == "XAIEGBL_TILE_TYPE_AIETILE"
XAIEGBL_TILE_TYPE_SHIM == "XAIEGBL_TILE_TYPE_SHIM"
_XAie_GetTileTypefromLoc(L) ==
    IF L.Row = 0 THEN XAIEGBL_TILE_TYPE_SHIM ELSE XAIEGBL_TILE_TYPE_AIETILE

\* lines 111-119: the first combo event of the object's tile and module
BaseE(o) ==
    IF _XAie_GetTileTypefromLoc(o.Loc) = XAIEGBL_TILE_TYPE_AIETILE
    THEN (IF o.Mod = XAIE_CORE_MOD THEN "XAIE_EVENT_COMBO_EVENT_0_CORE"
          ELSE "XAIE_EVENT_COMBO_EVENT_0_MEM")
    ELSE "XAIE_EVENT_COMBO_EVENT_0_PL"

\* getEvents: every outcome [rc, vE] of one call.  An event of vE is BaseE
\* plus an offset; vRscs[0] is an indeterminate value when vRscs is empty.
getEvents(o) ==
    IF o.State.Reserved = 0
    THEN {[rc |-> XAIE_ERR, vE |-> <<>>]}
    ELSE IF Len(o.vOps) = 1
    THEN {[rc |-> XAIE_OK, vE |-> <<[Base |-> BaseE(o), Off |-> id]>>]
            : id \in IF Len(o.vRscs) >= 1 THEN {o.vRscs[1].RscId} ELSE 0..3}
    ELSE {[rc |-> XAIE_OK,
           vE |-> [i \in 1..Len(o.vOps) |-> [Base |-> BaseE(o), Off |-> i - 1]]]}

\* ------------------------------------------------------------- slot pool
XAieAllocRsc(p, L, M, R) ==
    IF \/ (R.Loc.Row = 0 /\ R.Mod # XAIE_PL_MOD)
       \/ (R.Loc.Row # 0 /\ R.Mod = XAIE_PL_MOD)
    THEN [rc |-> XAIE_INVALID_ARGS, pool |-> p, R |-> R]
    ELSE IF M \notin Mods
    THEN [rc |-> XAIE_INVALID_ARGS, pool |-> p, R |-> R]
    ELSE LET sbit == IF M = XAIE_PL_MOD THEN L.Col * 4
                     ELSE (L.Col * 8 + (L.Row - 1)) * 4
             a == alloc_rsc_bit(p[M], sbit, 4)
         IN  IF a.bit < 0
             THEN [rc |-> XAIE_ERR, pool |-> p, R |-> R]
             ELSE [rc |-> XAIE_OK,
                   pool |-> [p EXCEPT ![M] = a.bits],
                   R |-> [Loc |-> L, Mod |-> M, RscId |-> a.bit - sbit]]

XAieReleaseRsc(p, R) ==
    IF \/ (R.Loc.Row = 0 /\ R.Mod # XAIE_PL_MOD)
       \/ (R.Loc.Row # 0 /\ R.Mod = XAIE_PL_MOD)
    THEN p
    ELSE IF R.Mod = XAIE_PL_MOD
    THEN [p EXCEPT ![XAIE_PL_MOD] = clear_rsc_bit(@, R.Loc.Col * 4 + R.RscId)]
    ELSE IF R.Mod = XAIE_CORE_MOD
    THEN [p EXCEPT ![XAIE_CORE_MOD] =
            clear_rsc_bit(@, (R.Loc.Col * 8 + (R.Loc.Row - 1)) * 4 + R.RscId)]
    ELSE [p EXCEPT ![XAIE_MEM_MOD] =
            clear_rsc_bit(@, (R.Loc.Col * 8 + (R.Loc.Row - 1)) * 4 + R.RscId)]

\* vRscs[j] (0-based) as the code reads it: the element when it exists, an
\* indeterminate value when j is past the end of the vector.
RscAt(vRscs, j) == IF j + 1 <= Len(vRscs) THEN {vRscs[j + 1]} ELSE IndetRsc

RECURSIVE ReleaseLoop(_, _, _, _)
\* lines 169-171: the pools that releasing vRscs[j..i-1] can leave
ReleaseLoop(p, vRscs, j, i) ==
    IF j >= i THEN {p}
    ELSE UNION {ReleaseLoop(XAieReleaseRsc(p, R), vRscs, j + 1, i) :
                    R \in RscAt(vRscs, j)}

RECURSIVE ReserveLoop(_, _, _, _, _)
\* lines 164-175: the outcomes of iterations i.. of the loop (i 0-based)
ReserveLoop(o, p, vRscs, i, failed) ==
    IF i >= Len(o.vEvents)
    THEN {[pool |-> p, vRscs |-> vRscs, acqFailed |-> failed]}
    ELSE UNION {
           LET a == XAieAllocRsc(p, o.Loc, o.Mod, R0)
           IN  IF a.rc # XAIE_OK
               THEN UNION {ReserveLoop(o, p2, vRscs, i + 1, TRUE) :
                               p2 \in ReleaseLoop(p, vRscs, 0, i)}
               ELSE ReserveLoop(o, a.pool, Append(vRscs, a.R), i + 1, failed)
           : R0 \in UninitRsc}

\* _reserve: every outcome [rc, obj, pool, acqFailed] of one call
_reserve(o, p) ==
    UNION {
      {[rc |-> XAIE_OK,
        pool |-> x.pool,
        acqFailed |-> x.acqFailed,
        obj |-> [o EXCEPT !.vRscs = x.vRscs,
                          !.Rsc = [RscId |-> IF Len(x.vRscs) <= 2
                                             THEN (IF R.RscId < 2 THEN 0 ELSE 1)
                                             ELSE 2]]]
       : R \in RscAt(x.vRscs, 0)}
      : x \in ReserveLoop(o, p, o.vRscs, 0, FALSE)}

RECURSIVE ReleaseAll(_, _, _)
ReleaseAll(p, vRscs, j) ==
    IF j > Len(vRscs) THEN p
    ELSE ReleaseAll(XAieReleaseRsc(p, vRscs[j]), vRscs, j + 1)

_release(o, p) ==
    [rc |-> XAIE_OK, pool |-> ReleaseAll(p, o.vRscs, 1),
     obj |-> [o EXCEPT !.vRscs = <<>>]]

\* -------------------------------------------------------- combo registers
\* XAie_EventComboConfig on the registers g of one module: the call either
\* fails and writes nothing or programs ComboId with (Op, E1, E2).
XAie_EventComboConfig(g, ComboId, Op, E1, E2) ==
    {[rc |-> XAIE_ERR, g |-> g],
     [rc |-> XAIE_OK, g |-> [g EXCEPT ![ComboId] = [Op |-> Op, E1 |-> E1, E2 |-> E2]]]}

\* XAie_EventComboReset
XAie_EventComboReset(g, ComboId) == [g EXCEPT ![ComboId] = Idle]

\* vOps[k] and vEvents[k] (0-based) as the code reads them.
OpAt(vOps, k) == IF k + 1 <= Len(vOps) THEN {vOps[k + 1]} ELSE Ops
EventAt(vEvents, k) == IF k + 1 <= Len(vEvents) THEN {vEvents[k + 1]} ELSE Events

\* The combo a slot stands for (lines 205-209, 244-248).
ComboOf(R) == IF R.RscId = 0 THEN XAIE_EVENT_COMBO0 ELSE XAIE_EVENT_COMBO1

RECURSIVE ResetLoop(_, _, _, _)
\* lines 219-224: for (tId = StartCId; tId < ComboId; tId += i) reset tId
ResetLoop(g, tId, ComboId, i) ==
    IF tId < ComboId
    THEN ResetLoop(XAie_EventComboReset(g, tId), tId + i, ComboId, i)
    ELSE g

RECURSIVE StartLoop(_, _, _, _, _)
\* lines 202-227: the outcomes of iterations i, i+2, .. (i 0-based);
\* written is the set of combos programmed so far by this call
StartLoop(o, g, i, StartCId, written) ==
    IF i >= Len(o.vEvents)
    THEN {[rc |-> XAIE_OK, g |-> g, written |-> written]}
    ELSE UNION {
           LET ComboId == ComboOf(R)
               SId == IF i = 0 THEN ComboId ELSE StartCId
           IN  UNION {
                 IF c.rc # XAIE_OK
                 THEN {[rc |-> c.rc, g |-> ResetLoop(c.g, SId, ComboId, i),
                        written |-> written]}
                 ELSE StartLoop(o, c.g, i + 2, SId, written \cup {ComboId})
                 : c \in UNION {XAie_EventComboConfig(g, ComboId, op, e1, e2) :
                                  op \in OpAt(o.vOps, i \div 2),
                                  e1 \in EventAt(o.vEvents, i),
                                  e2 \in EventAt(o.vEvents, i + 1)}}
           : R \in RscAt(o.vRscs, i)}

\* _start: every outcome [rc, g, written] of one call
_start(o, g) ==
    UNION {
      IF x.rc = XAIE_OK /\ Len(o.vOps) = 3
      THEN {[rc |-> c.rc, g |-> c.g,
             written |-> IF c.rc = XAIE_OK
                         THEN x.written \cup {XAIE_EVENT_COMBO2} ELSE x.written]
            : c \in XAie_EventComboConfig(x.g, XAIE_EVENT_COMBO2, o.vOps[3],
                                          o.vEvents[1], o.vEvents[1])}
      ELSE {x}
      : x \in StartLoop(o, g, 0, XAIE_EVENT_COMBO0, {})}

\* _stop: only iteration i = 0 of the loop over vOps does anything
_stop(o, g) ==
    IF Len(o.vOps) = 0 THEN {[rc |-> XAIE_OK, g |-> g]}
    ELSE {[rc |-> XAIE_OK, g |-> XAie_EventComboReset(g, ComboOf(R))]
            : R \in RscAt(o.vRscs, 0)}

\* ------------------------------------------------- lifecycle (base class)
reserve(o, p) ==
    IF o.State.Configured = 0 \/ o.State.Reserved = 1 \/ o.State.Released = 1
    THEN {[rc |-> XAIE_ERR, pool |-> p, acqFailed |-> FALSE, obj |-> o]}
    ELSE {IF x.rc = XAIE_OK THEN [x EXCEPT !.obj.State.Reserved = 1] ELSE x
            : x \in _reserve(o, p)}

release(o, p) ==
    IF o.State.Reserved = 0 \/ o.State.Running = 1
    THEN [rc |-> XAIE_ERR, pool |-> p, obj |-> o]
    ELSE [_release(o, p) EXCEPT !.obj.State.Reserved = 0,
                                !.obj.State.Released = 1]

start(o, g) ==
    IF o.State.Reserved = 0 \/ o.State.Running = 1
    THEN {[rc |-> XAIE_ERR, g |-> g, written |-> {}, obj |-> o]}
    ELSE {[rc |-> x.rc, g |-> x.g, written |-> x.written,
           obj |-> IF x.rc = XAIE_OK THEN [o EXCEPT !.State.Running = 1] ELSE o]
            : x \in _start(o, g)}

stop(o, g) ==
    IF o.State.Reserved = 0
    THEN {[rc |-> XAIE_ERR, g |-> g, obj |-> o]}
    ELSE {[rc |-> x.rc, g |-> x.g, obj |-> [o EXCEPT !.State.Running = 0]]
            : x \in _stop(o, g)}

\* ------------------------------------------- XAie_SimIO_MaskPoll (xaie_sim.c)
XAIELIB_SUCCESS == "XAIELIB_SUCCESS"
XAIELIB_FAILURE == "XAIELIB_FAILURE"

RegVals == 0..MaxRegVal

RECURSIVE BitAnd(_, _)
\* a & b on unsigned values
BitAnd(a, b) ==
    IF a = 0 \/ b = 0 THEN 0
    ELSE (a % 2) * (b % 2) + 2 * BitAnd(a \div 2, b \div 2)

\* The test of the loop comparing the register with Value and ignoring Mask.
MatchesNoMask(v, Mask, Value) == v = Value

\* line 203: (XAie_SimIO_Read32(IOInst, RegOff) & Mask) == Value
Matches(v, Mask, Value) == BitAnd(v, Mask) = Value

\* TimeOutUs incremented whatever the caller passed.
InitialTimeOutPlus(TimeOutUs) == TimeOutUs + 1

\* lines 199-200: the TimeOutUs the loop starts with
InitialTimeOut(TimeOutUs) == IF TimeOutUs = 0 THEN TimeOutUs + 1 ELSE TimeOutUs

\* The frame of a call: pc is "idle" before the first call, "loop" at the
\* test of the while loop and "done" after the return; Arg is the TimeOutUs
\* the caller passed; seen holds the values XAie_SimIO_Read32 returned to this
\* call, in order.
NoPoll == [pc |-> "idle", Mask |-> 0, Value |-> 0, Arg |-> 0, TimeOutUs |-> 0,
           Ret |-> XAIELIB_FAILURE, seen |-> <<>>]

\* lines 196-200: entry of a call
MaskPollEnter(Mask, Value, TimeOutUs) ==
    [pc |-> "loop", Mask |-> Mask, Value |-> Value, Arg |-> TimeOutUs,
     TimeOutUs |-> InitialTimeOut(TimeOutUs),
     Ret |-> XAIELIB_FAILURE, seen |-> <<>>]

\* lines 203-208: one iteration of the loop in which the register read gives v
MaskPollIter(p, v) ==
    IF Matches(v, p.Mask, p.Value)
    THEN [p EXCEPT !.Ret = XAIELIB_SUCCESS, !.pc = "done",
                   !.seen = Append(@, v)]
    ELSE [p EXCEPT !.TimeOutUs = @ - 1, !.seen = Append(@, v)]

\* ---------------------------------------------------------- state machine
\* The tile and module the objects of a run are constructed on.
HomeLoc == [Col |-> 0, Row |-> 1]
HomeMod == XAIE_CORE_MOD

PlaceOf(o) == <<o.Loc, o.Mod>>

\* The record of a call: op on object r returned rc; pre is the object's State
\* before the call.  setEvents: nE and nOp are the sizes of its arguments,
\* allTr says that every event passed is translatable, failK is the 1-based
\* position of the event whose translation failed (0: none), vE and vOp are
\* the arguments of a successful call.  getInputEvents: vE and vOp are its
\* outputs.  reserve: acqFailed says that an XAieAllocRsc call of it failed.
\* start: written is the set of combos its XAie_EventComboConfig calls
\* programmed.  stop: stops counts the stop calls on the object since its
\* latest successful start when nothing but these stop calls happened since
\* (0: something else happened, 2: two or more), and written is then the
\* written of that start.  getEvents: out is its output vector.
NoCall == [op |-> "none", r |-> 1, rc |-> XAIE_OK, pre |-> NewState,
           nE |-> 0, nOp |-> 0, allTr |-> TRUE, failK |-> 0,
           vE |-> <<>>, vOp |-> <<>>, acqFailed |-> FALSE, written |-> {},
           stops |-> 0, out |-> <<>>]

Init ==
    /\ rsc \in [Rids -> {XAieComboEvent(HomeLoc, HomeMod, n) : n \in 2..MaxENum}]
    /\ pool = [M \in Mods |-> {}]
    /\ regs = [pl \in Locs \X Mods |-> [c \in ComboIds |-> Idle]]
    /\ last = NoCall
    /\ poll = NoPoll

\* Arguments of setEvents: every vector up to the bounds ...
AllEventVecs == SeqsOf(Events, 1, MaxENum)
AllOpVecs == SeqsOf(Ops, 0, MaxOpLen)
\* ... and the ones of a client that passes as many events as the object has.
ClientEventVecs(o) == [1..Len(o.vEvents) -> {1}]
ClientOpVecs == SeqsOf({1}, 0, 3)

SetEventsWith(r, vEs, vOps) ==
    \E vE \in vEs, vOp \in vOps :
        LET x == setEvents(rsc[r], vE, vOp)
        IN  /\ rsc' = [rsc EXCEPT ![r] = x.obj]
            /\ last' = [NoCall EXCEPT
                          !.op = "setEvents", !.r = r, !.rc = x.rc,
                          !.pre = rsc[r].State,
                          !.nE = Len(vE), !.nOp = Len(vOp),
                          !.allTr = \A i \in 1..Len(vE) :
                                       Translatable(rsc[r].Loc, rsc[r].Mod, vE[i]),
                          !.failK = x.failK,
                          !.vE = IF x.rc = XAIE_OK THEN vE ELSE <<>>,
                          !.vOp = IF x.rc = XAIE_OK THEN vOp ELSE <<>>]
            /\ UNCHANGED <<pool, regs, poll>>

CallSetEvents(r) == SetEventsWith(r, ClientEventVecs(rsc[r]), ClientOpVecs)

CallGetInputEvents(r) ==
    LET x == getInputEvents(rsc[r])
    IN  /\ last' = [NoCall EXCEPT !.op = "getInputEvents", !.r = r, !.rc = x.rc,
                                  !.pre = rsc[r].State,
                                  !.vE = x.vE, !.vOp = x.vOp]
        /\ UNCHANGED <<rsc, pool, regs, poll>>

CallGetEvents(r) ==
    \E x \in getEvents(rsc[r]) :
        /\ last' = [NoCall EXCEPT !.op = "getEvents", !.r = r, !.rc = x.rc,
                                  !.pre = rsc[r].State,
                                  !.out = x.vE]
        /\ UNCHANGED <<rsc, pool, regs, poll>>

CallReserve(r) ==
    \E x \in reserve(rsc[r], pool) :
        /\ rsc' = [rsc EXCEPT ![r] = x.obj]
        /\ pool' = x.pool
        /\ last' = [NoCall EXCEPT !.op = "reserve", !.r = r, !.rc = x.rc,
                                  !.pre = rsc[r].State,
                                  !.acqFailed = x.acqFailed]
        /\ UNCHANGED <<regs, poll>>

CallRelease(r) ==
    LET x == release(rsc[r], pool)
    IN  /\ rsc' = [rsc EXCEPT ![r] = x.obj]
        /\ pool' = x.pool
        /\ last' = [NoCall EXCEPT !.op = "release", !.r = r, !.rc = x.rc,
                                  !.pre = rsc[r].State]
        /\ UNCHANGED <<regs, poll>>

CallStart(r) ==
    \E x \in start(rsc[r], regs[PlaceOf(rsc[r])]) :
        /\ rsc' = [rsc EXCEPT ![r] = x.obj]
        /\ regs' = [regs EXCEPT ![PlaceOf(rsc[r])] = x.g]
        /\ last' = [NoCall EXCEPT !.op = "start", !.r = r, !.rc = x.rc,
                                  !.pre = rsc[r].State,
                                  !.written = x.written]
        /\ UNCHANGED <<pool, poll>>

\* The stops field of the record of a stop call on object r made now.
StopsAfter(r) ==
    IF last.r = r /\ last.op = "start" /\ last.rc = XAIE_OK THEN 1
    ELSE IF last.r = r /\ last.op = "stop" /\ last.stops > 0 THEN 2
    ELSE 0

CallStop(r) ==
    \E x \in stop(rsc[r], regs[PlaceOf(rsc[r])]) :
        /\ rsc' = [rsc EXCEPT ![r] = x.obj]
        /\ regs' = [regs EXCEPT ![PlaceOf(rsc[r])] = x.g]
        /\ last' = [NoCall EXCEPT !.op = "stop", !.r = r, !.rc = x.rc,
                                  !.pre = rsc[r].State,
                                  !.stops = StopsAfter(r),
                                  !.written = IF StopsAfter(r) > 0
                                              THEN last.written ELSE {}]
        /\ UNCHANGED <<pool, poll>>

\* The lifecycle of NumRsc objects on one tile and module.
Next ==
    \E r \in Rids :
        \/ CallSetEvents(r)
        \/ CallReserve(r)
        \/ CallRelease(r)
        \/ CallStart(r)
        \/ CallStop(r)

Spec == Init /\ [][Next]_vars

\* The configuration interface of object 1 under every argument vector.
CfgInit ==
    /\ Init
    /\ \A r \in Rids \ {1} : Len(rsc[r].vEvents) = 2

CfgSetEvents == SetEventsWith(1, AllEventVecs, AllOpVecs)
CfgGetInputEvents == CallGetInputEvents(1)
CfgNext == CfgSetEvents \/ CfgGetInputEvents
SpecCfg == CfgInit /\ [][CfgNext]_vars

\* reserve/start/stop/release of object 1 from the configurations the header
\* of setEvents documents (lines 37-44): vOp[0] for 2 events, vOp[0..1] or
\* vOp[0..2] for more.
DocOpCounts(n) == IF n <= 2 THEN {1} ELSE {2, 3}

Configured(o, vE, vOp) ==
    [o EXCEPT !.vEvents = vE, !.vOps = vOp, !.State.Configured = 1]

ConfiguredInit ==
    /\ \E n \in 2..MaxENum : \E k \in DocOpCounts(n) :
         rsc = [r \in Rids |->
                  IF r = 1
                  THEN Configured(XAieComboEvent(HomeLoc, HomeMod, n),
                                  [i \in 1..n |-> 1], [i \in 1..k |-> 1])
                  ELSE XAieComboEvent(HomeLoc, HomeMod, 2)]
    /\ pool = [M \in Mods |-> {}]
    /\ regs = [pl \in Locs \X Mods |-> [c \in ComboIds |-> Idle]]
    /\ last = NoCall
    /\ poll = NoPoll

HwReserve == CallReserve(1)
HwStart == CallStart(1)
HwStop == CallStop(1)
HwRelease == CallRelease(1)
HwGetEvents == CallGetEvents(1)
HwNext == HwReserve \/ HwStart \/ HwStop \/ HwRelease \/ HwGetEvents
SpecHw == ConfiguredInit /\ [][HwNext]_vars

\* lines 273-281: the first bit of the 4 bits of tile L in the bitmap of M
SBit(L, M) ==
    IF M = XAIE_PL_MOD THEN L.Col * 4 ELSE (L.Col * 8 + (L.Row - 1)) * 4

\* reserve and release of objects constructed on any tile and module for
\* which SBit is not negative.
Places == {pl \in Locs \X Mods : SBit(pl[1], pl[2]) >= 0}

PlaceInit ==
    /\ rsc \in [Rids -> {XAieComboEvent(pl[1], pl[2], 2) : pl \in Places}]
    /\ pool = [M \in Mods |-> {}]
    /\ regs = [pl \in Locs \X Mods |-> [c \in ComboIds |-> Idle]]
    /\ last = NoCall
    /\ poll = NoPoll

PlaceNext ==
    \E r \in Rids :
        \/ CallSetEvents(r)
        \/ CallReserve(r)
        \/ CallRelease(r)

SpecPlace == PlaceInit /\ [][PlaceNext]_vars

\* One thread calling XAie_SimIO_MaskPoll again and again; the simulator
\* answers every read with any register value.
PollInit ==
    /\ rsc = [r \in Rids |-> XAieComboEvent(HomeLoc, HomeMod, 2)]
    /\ pool = [M \in Mods |-> {}]
    /\ regs = [pl \in Locs \X Mods |-> [c \in ComboIds |-> Idle]]
    /\ last = NoCall
    /\ poll = NoPoll

PollCall ==
    /\ poll.pc \in {"idle", "done"}
    /\ \E Mask \in RegVals, Value \in RegVals, TimeOutUs \in 0..MaxTimeOut :
          poll' = MaskPollEnter(Mask, Value, TimeOutUs)
    /\ UNCHANGED <<rsc, pool, regs, last>>

PollIter ==
    /\ poll.pc = "loop"
    /\ poll.TimeOutUs > 0
    /\ \E v \in RegVals : poll' = MaskPollIter(poll, v)
    /\ UNCHANGED <<rsc, pool, regs, last>>

PollReturn ==
    /\ poll.pc = "loop"
    /\ poll.TimeOutUs = 0
    /\ poll' = [poll EXCEPT !.pc = "done"]
    /\ UNCHANGED <<rsc, pool, regs, last>>

PollNext == PollCall \/ PollIter \/ PollReturn

\* The calling thread keeps running: usleep(1) returns and the loop goes on.
SpecPoll == PollInit /\ [][PollNext]_vars /\ WF_vars(PollIter \/ PollReturn)

\* ----------------------------------------------------------------- claims
\* The spec's lifecycleState of an object.
Lifecycle(o) ==
    IF o.State.Running = 1 THEN "Started"
    ELSE IF o.State.Reserved = 1 THEN "Reserved"
    ELSE IF o.State.Released = 1 THEN "Released"
    ELSE IF o.State.Configured = 1 THEN "Configured"
    ELSE "Created"

PreLifecycle == Lifecycle([State |-> last.pre])

SlotIds(o) == {o.vRscs[i].RscId : i \in 1..Len(o.vRscs)}

\* C1: when a slot acquisition fails during reserve() on a Configured object,
\* reserve() returns a failure status and the object stays Configured.
C1_ReserveFailureReported ==
    (last.op = "reserve" /\ last.acqFailed)
        => /\ last.rc # XAIE_OK
           /\ Lifecycle(rsc[last.r]) = "Configured"

\* C2: a reserve() call in which an acquisition failed leaves the pool bitmaps
\* as they were before the call and the object's vRscs empty.
C2_FailedReserveLeavesPool ==
    [][(last'.op = "reserve" /\ last'.acqFailed)
          => (pool' = pool /\ rsc'[last'.r].vRscs = <<>>)]_vars

\* C3: no slot id appears twice in one object's vRscs, and no slot id is held
\* by two objects of the same tile and module.
C3_SlotsUnique ==
    /\ \A r \in Rids : Cardinality(SlotIds(rsc[r])) = Len(rsc[r].vRscs)
    /\ \A r1, r2 \in Rids :
         (r1 # r2 /\ PlaceOf(rsc[r1]) = PlaceOf(rsc[r2]))
            => SlotIds(rsc[r1]) \cap SlotIds(rsc[r2]) = {}

\* C4: vRscs is non-empty exactly when the object is Reserved or Started, and
\* after a successful reserve a non-empty vRscs has one slot per input event.
C4_SlotsIffReserved ==
    /\ \A r \in Rids :
         (rsc[r].vRscs # <<>>) <=> (Lifecycle(rsc[r]) \in {"Reserved", "Started"})
    /\ (last.op = "reserve" /\ last.rc = XAIE_OK /\ rsc[last.r].vRscs # <<>>)
          => Len(rsc[last.r].vRscs) = Len(rsc[last.r].vEvents)

\* The op counts the claim allows for n input events.
OpCountAllowed(n, k) == IF n = 2 THEN k <= 1 ELSE k \in {2, 3}

\* C5: on a Created object with n input events, setEvents with n translatable
\* events and an allowed op count succeeds and configures the object; with
\* another event count or op count it fails with XAIE_INVALID_ARGS and the
\* object stays Created.
C5_SetEventsValidation ==
    (last.op = "setEvents" /\ PreLifecycle = "Created" /\ last.allTr)
        => IF /\ last.nE = Len(rsc[last.r].vEvents)
              /\ OpCountAllowed(last.nE, last.nOp)
           THEN last.rc = XAIE_OK /\ Lifecycle(rsc[last.r]) = "Configured"
           ELSE last.rc = XAIE_INVALID_ARGS /\ Lifecycle(rsc[last.r]) = "Created"

\* C6: a Configured (or later) object has exactly 1 op when it has 2 input
\* events and 2 or 3 ops when it has 3 or 4.
C6_OpsSize ==
    \A r \in Rids :
        rsc[r].State.Configured = 1
            => IF Len(rsc[r].vEvents) = 2
               THEN Len(rsc[r].vOps) = 1
               ELSE Len(rsc[r].vOps) \in {2, 3}

\* C7: a setEvents call that fails on the translation of its k-th event leaves
\* the stored vEvents and vOps as they were before the call.
C7_FailedSetEventsCommitsNothing ==
    [][(last'.op = "setEvents" /\ last'.failK > 0)
          => /\ rsc'[last'.r].vEvents = rsc[last'.r].vEvents
             /\ rsc'[last'.r].vOps = rsc[last'.r].vOps]_vars

\* C8 as stated: after a setEvents call that failed on the translation of its
\* k-th event, getInputEvents reports the ordering error, whatever setEvents
\* calls came before.
C8_GetAfterFailedSet ==
    (last.op = "setEvents" /\ last.failK > 0)
        => getInputEvents(rsc[last.r]).rc = XAIE_ERR

\* C8 amended: after a setEvents call that failed on the translation of its
\* k-th event, on an object that no earlier setEvents call configured,
\* getInputEvents reports the ordering error.
C8_GetAfterFailedFirstSet ==
    (last.op = "setEvents" /\ last.failK > 0 /\ last.pre.Configured = 0)
        => getInputEvents(rsc[last.r]).rc = XAIE_ERR

C8_Witness ==
    /\ last.op = "setEvents" /\ last.failK = 2 /\ last.pre.Configured = 0
    /\ rsc[last.r].vEvents[1] # 0
    /\ getInputEvents(rsc[last.r]).rc = XAIE_ERR

\* C9: after a successful setEvents(vE, vOp), getInputEvents succeeds and
\* returns vE and vOp, element for element.
C9_RoundTrip ==
    (last.op = "setEvents" /\ last.rc = XAIE_OK)
        => getInputEvents(rsc[last.r]) =
              [rc |-> XAIE_OK, vE |-> last.vE, vOp |-> last.vOp]

C9_Witness ==
    /\ last.op = "setEvents" /\ last.rc = XAIE_OK
    /\ last.pre.Configured = 1
    /\ Len(last.vOp) = 1
    /\ last.vE[1] # last.vE[2]
    /\ getInputEvents(rsc[last.r]).vE = last.vE

C11_FourInputScenario ==
    LET o == rsc[last.r]
        g == regs[PlaceOf(o)]
    IN  /\ (last.op = "setEvents" /\ PreLifecycle = "Created" /\ last.allTr
             /\ Len(o.vEvents) = 4 /\ last.nE = 4 /\ last.nOp = 3)
               => (last.rc = XAIE_OK /\ Lifecycle(o) = "Configured")
        /\ (last.op = "start" /\ last.rc = XAIE_OK
             /\ Len(o.vEvents) = 4 /\ Len(o.vOps) = 3)
               => /\ Lifecycle(o) = "Started"
                  /\ g[XAIE_EVENT_COMBO0] =
                        [Op |-> o.vOps[1], E1 |-> o.vEvents[1], E2 |-> o.vEvents[2]]
                  /\ g[XAIE_EVENT_COMBO1] =
                        [Op |-> o.vOps[2], E1 |-> o.vEvents[3], E2 |-> o.vEvents[4]]
                  /\ XAIE_EVENT_COMBO2 \in last.written
                  /\ g[XAIE_EVENT_COMBO2].Op = o.vOps[3]
                  /\ \A x \in getEvents(o) : x.rc = XAIE_OK /\ Len(x.vE) = 3

Max(a, b) == IF a >= b THEN a ELSE b

\* C13: a XAie_SimIO_MaskPoll call reads the register at most
\* max(TimeOutUs, 1) times, whatever values the reads return, and a call that
\* has been entered returns.
C13_MaskPollReturns ==
    /\ [](Len(poll.seen) <= Max(poll.Arg, 1))
    /\ ((poll.pc = "loop") ~> (poll.pc = "done"))

C13_Witness ==
    /\ poll.pc = "done" /\ poll.Ret = XAIELIB_FAILURE
    /\ poll.Arg = MaxTimeOut /\ Len(poll.seen) = MaxTimeOut
    /\ poll.Mask # 0

\* C14: a returned XAie_SimIO_MaskPoll call returns XAIELIB_SUCCESS exactly
\* when one of the values it read satisfies (value & Mask) = Value, and
\* XAIELIB_FAILURE otherwise; called with TimeOutUs 0 it has read once.
C14_MaskPollResult ==
    poll.pc = "done"
        => /\ poll.Ret \in {XAIELIB_SUCCESS, XAIELIB_FAILURE}
           /\ (poll.Ret = XAIELIB_SUCCESS)
                 <=> (\E i \in 1..Len(poll.seen) :
                         BitAnd(poll.seen[i], poll.Mask) = poll.Value)
           /\ (poll.Arg = 0 => Len(poll.seen) = 1)

C14_Witness ==
    /\ poll.pc = "done" /\ poll.Arg = 0 /\ poll.Ret = XAIELIB_SUCCESS
    /\ Len(poll.seen) = 1 /\ poll.seen[1] # poll.Value

\* A tile and a module that do not go together.
Mismatched(L, M) ==
    \/ (L.Row = 0 /\ M # XAIE_PL_MOD)
    \/ (L.Row # 0 /\ M = XAIE_PL_MOD)

\* C15: a reserve() call that acquires slots for an object whose tile and
\* module are mismatched sets no bit in any of the three bitmaps, and its
\* acquisition is rejected with XAIE_INVALID_ARGS.
C15_MismatchRejected ==
    [][(/\ last'.op = "reserve"
        /\ last'.pre.Configured = 1 /\ last'.pre.Reserved = 0
        /\ last'.pre.Released = 0
        /\ Mismatched(rsc[last'.r].Loc, rsc[last'.r].Mod))
          => /\ pool' = pool
             /\ \A R0 \in UninitRsc :
                   XAieAllocRsc(pool, rsc[last'.r].Loc, rsc[last'.r].Mod, R0).rc
                       = XAIE_INVALID_ARGS]_vars

\* The 4 bits of the object's tile in the bitmap of its module.
BitRange(o) == SBit(o.Loc, o.Mod)..(SBit(o.Loc, o.Mod) + 3)

\* C20: every slot id an object records is in 0..3; a successful release()
\* leaves clear the bit SBit + RscId of every slot the object held; and the
\* bit ranges of two objects holding slots on distinct tiles of the same
\* module kind do not overlap.
C20_Addressing ==
    [][/\ \A r \in Rids : \A i \in 1..Len(rsc'[r].vRscs) :
            rsc'[r].vRscs[i].RscId \in 0..3
       /\ (last'.op = "release" /\ last'.rc = XAIE_OK)
            => \A i \in 1..Len(rsc[last'.r].vRscs) :
                  SBit(rsc[last'.r].Loc, rsc[last'.r].Mod)
                      + rsc[last'.r].vRscs[i].RscId
                    \notin pool'[rsc[last'.r].Mod]
       /\ \A r1, r2 \in Rids :
            (/\ rsc'[r1].Mod = rsc'[r2].Mod /\ rsc'[r1].Loc # rsc'[r2].Loc
             /\ rsc'[r1].vRscs # <<>> /\ rsc'[r2].vRscs # <<>>)
              => BitRange(rsc'[r1]) \cap BitRange(rsc'[r2]) = {}]_vars

\* C16: for a Started object with 2 input events, the aggregate Rsc.RscId
\* that reserve() derived, the combo that start() programmed and the offset
\* from BaseE of the one event getEvents returns are the same number.
C16_ComboIdentityAgrees ==
    \A r \in Rids :
        (Lifecycle(rsc[r]) = "Started" /\ Len(rsc[r].vEvents) = 2)
            => /\ (last.op = "start" /\ last.r = r /\ last.rc = XAIE_OK)
                     => last.written = {rsc[r].Rsc.RscId}
               /\ \A x \in getEvents(rsc[r]) :
                     /\ x.rc = XAIE_OK
                     /\ Len(x.vE) = 1
                     /\ x.vE[1].Off = rsc[r].Rsc.RscId

\* The iterations i = 0, 2, .. of the loop of _start over n input events.
StartIters(n) == {i \in {0, 2} : i < n}

\* C17: the calls index vRscs, vOps and vEvents within their bounds:
\* _reserve reads vRscs[0] (line 176), every iteration i of _start reads
\* vRscs[i], vOps[i/2], vEvents[i] and vEvents[i+1], _stop reads vRscs[0]
\* when vOps is not empty, and getEvents reads vRscs[0] when there is 1 op.
C17_IndicesInBounds ==
    LET o == rsc[last.r]
        Tried == last.pre.Reserved = 1 /\ last.pre.Running = 0
    IN  /\ (last.op = "reserve" /\ last.pre.Configured = 1
             /\ last.pre.Reserved = 0 /\ last.pre.Released = 0)
               => Len(o.vRscs) >= 1
        /\ (last.op = "start" /\ Tried)
               => (Len(o.vRscs) >= 1 /\ Len(o.vOps) >= 1 /\ Len(o.vEvents) >= 2)
        /\ (last.op = "start" /\ Tried /\ last.rc = XAIE_OK)
               => \A i \in StartIters(Len(o.vEvents)) :
                     /\ i + 1 <= Len(o.vRscs)
                     /\ (i \div 2) + 1 <= Len(o.vOps)
                     /\ i + 2 <= Len(o.vEvents)
        /\ (last.op = "stop" /\ last.pre.Reserved = 1 /\ Len(o.vOps) >= 1)
               => Len(o.vRscs) >= 1
        /\ \A r \in Rids :
               (rsc[r].State.Reserved = 1 /\ Len(rsc[r].vOps) = 1)
                  => Len(rsc[r].vRscs) >= 1

\* lines 202-231: the combos a successful _start of o programs, as far as o
\* holds the slots the loop reads.
StartCombos(o) ==
    {ComboOf(o.vRscs[i + 1]) :
        i \in {j \in StartIters(Len(o.vEvents)) : j + 1 <= Len(o.vRscs)}}
      \cup (IF Len(o.vOps) = 3 THEN {XAIE_EVENT_COMBO2} ELSE {})

\* C18: two objects of one tile and module that are Started at the same
\* time have no combo in common among those their start() calls programmed.
C18_StartedCombosDisjoint ==
    \A r1, r2 \in Rids :
        (/\ r1 # r2 /\ PlaceOf(rsc[r1]) = PlaceOf(rsc[r2])
         /\ Lifecycle(rsc[r1]) = "Started" /\ Lifecycle(rsc[r2]) = "Started")
           => StartCombos(rsc[r1]) \cap StartCombos(rsc[r2]) = {}

\* The bits of the bitmap of M that stand for the slots recorded in the
\* vRscs of the objects of module M.
HeldBits(M) ==
    UNION {{SBit(rsc[r].Loc, M) + id : id \in SlotIds(rsc[r])} :
             r \in {q \in Rids : rsc[q].Mod = M}}

\* C19: the bits set in the bitmap of a module are exactly the bits of the
\* slots recorded in the vRscs of the objects of that module.
C19_PoolConservation ==
    \A M \in Mods : pool[M] = HeldBits(M)

====
